---------------------------- MODULE Spec2Model ----------------------------
(***************************************************************************)
(* Retirement Savings Calculator (src/app.py): one run of the Streamlit    *)
(* script, statement by statement.  The script is re-executed from the top *)
(* whenever a widget changes, so a run reads the widgets, resolves the     *)
(* rate, runs the projection loop, builds the data frame and the metrics,  *)
(* and then runs the comparison loop over the selected options.            *)
(*                                                                         *)
(* Numbers.  The script computes with Python ints and floats.  The model   *)
(* computes with exact decimals of arbitrary precision: a decimal is       *)
(* m / 100^exp with m a signed integer held as a little-endian sequence of *)
(* base-100 limbs (TLC's own integers are 32 bits wide and the projection  *)
(* needs far more).  Every value the script computes from the modelled     *)
(* inputs is such a decimal, so the model is the script's arithmetic       *)
(* without the binary rounding of a double (relative error 2^-53 per       *)
(* operation); the n-th root of the CAGR is kept as a term.                *)
(***************************************************************************)
EXTENDS Integers, Sequences, FiniteSets, TLC

(***************************************************************************)
(* Magnitudes: naturals as little-endian sequences of limbs 0..99, without *)
(* high zero limbs; zero is << >>.                                         *)
(***************************************************************************)
Base == 10 * 10

RECURSIVE MagStrip(_)
MagStrip(a) ==
    IF a = <<>> THEN <<>>
    ELSE IF a[Len(a)] = 0 THEN MagStrip(SubSeq(a, 1, Len(a) - 1))
    ELSE a

RECURSIVE MagFromNat(_)
MagFromNat(n) ==
    IF n = 0 THEN <<>> ELSE <<n % Base>> \o MagFromNat(n \div Base)

RECURSIVE MagAddC(_, _, _)
MagAddC(a, b, c) ==
    IF a = <<>> /\ b = <<>>
    THEN IF c = 0 THEN <<>> ELSE <<c>>
    ELSE LET x == IF a = <<>> THEN 0 ELSE Head(a)
             y == IF b = <<>> THEN 0 ELSE Head(b)
             s == x + y + c
         IN  <<s % Base>> \o MagAddC(IF a = <<>> THEN <<>> ELSE Tail(a),
                                     IF b = <<>> THEN <<>> ELSE Tail(b),
                                     s \div Base)

MagAdd(a, b) == MagAddC(a, b, 0)

RECURSIVE MagSubB(_, _, _)
MagSubB(a, b, br) ==
    IF a = <<>> THEN <<>>
    ELSE LET y == IF b = <<>> THEN 0 ELSE Head(b)
             d == Head(a) - y - br
         IN  <<IF d < 0 THEN d + Base ELSE d>>
               \o MagSubB(Tail(a), IF b = <<>> THEN <<>> ELSE Tail(b),
                          IF d < 0 THEN 1 ELSE 0)

\* a - b for a >= b
MagSub(a, b) == MagStrip(MagSubB(a, b, 0))

RECURSIVE MagCmpHigh(_, _, _)
MagCmpHigh(a, b, i) ==
    IF i = 0 THEN 0
    ELSE IF a[i] < b[i] THEN -1
    ELSE IF a[i] > b[i] THEN 1
    ELSE MagCmpHigh(a, b, i - 1)

\* -1, 0, 1 as a < b, a = b, a > b
MagCmp(a, b) ==
    IF Len(a) < Len(b) THEN -1
    ELSE IF Len(a) > Len(b) THEN 1
    ELSE MagCmpHigh(a, b, Len(a))

RECURSIVE MagMulSmall(_, _, _)
MagMulSmall(a, k, c) ==
    IF a = <<>>
    THEN IF c = 0 THEN <<>> ELSE <<c>>
    ELSE LET p == Head(a) * k + c
         IN  <<p % Base>> \o MagMulSmall(Tail(a), k, p \div Base)

RECURSIVE MagMul(_, _)
MagMul(a, b) ==
    IF a = <<>> \/ b = <<>> THEN <<>>
    ELSE LET rest == MagMul(a, Tail(b))
         IN  MagStrip(MagAdd(MagMulSmall(a, Head(b), 0),
                             IF rest = <<>> THEN <<>> ELSE <<0>> \o rest))

\* a * 100^k
RECURSIVE MagShift(_, _)
MagShift(a, k) ==
    IF k = 0 \/ a = <<>> THEN a ELSE MagShift(<<0>> \o a, k - 1)

(***************************************************************************)
(* Decimals: [neg, mag, exp] is (-1)^neg * mag / 100^exp, in canonical     *)
(* form (zero is positive with exp 0; with exp > 0 the lowest limb is not  *)
(* zero), so that equal numbers are equal records.                         *)
(***************************************************************************)
RECURSIVE DecNorm(_)
DecNorm(d) ==
    IF d.mag = <<>> THEN [neg |-> FALSE, mag |-> <<>>, exp |-> 0]
    ELSE IF d.exp > 0 /\ d.mag[1] = 0
    THEN DecNorm([neg |-> d.neg, mag |-> Tail(d.mag), exp |-> d.exp - 1])
    ELSE d

\* the Python int n
DecInt(n) ==
    IF n < 0 THEN [neg |-> TRUE, mag |-> MagFromNat(-n), exp |-> 0]
    ELSE [neg |-> FALSE, mag |-> MagFromNat(n), exp |-> 0]

\* the number p / 100: a rate of p percent, as in `0.07` or `value / 100`
DecPercent(p) == DecNorm([DecInt(p) EXCEPT !.exp = 1])

DecZero == DecInt(0)
DecOne == DecInt(1)

DecNeg(x) == IF x.mag = <<>> THEN x ELSE [x EXCEPT !.neg = ~x.neg]

DecAdd(x, y) ==
    LET e == IF x.exp > y.exp THEN x.exp ELSE y.exp
        a == MagShift(x.mag, e - x.exp)
        b == MagShift(y.mag, e - y.exp)
        c == MagCmp(a, b)
    IN  IF x.neg = y.neg
        THEN DecNorm([neg |-> x.neg, mag |-> MagAdd(a, b), exp |-> e])
        ELSE IF c = 0 THEN DecZero
        ELSE IF c > 0
        THEN DecNorm([neg |-> x.neg, mag |-> MagSub(a, b), exp |-> e])
        ELSE DecNorm([neg |-> y.neg, mag |-> MagSub(b, a), exp |-> e])

DecSub(x, y) == DecAdd(x, DecNeg(y))

DecMul(x, y) ==
    DecNorm([neg |-> x.neg /= y.neg, mag |-> MagMul(x.mag, y.mag),
             exp |-> x.exp + y.exp])

\* x / 100^k, as in `value / 1_000_000`
DecDivPow(x, k) == DecNorm([x EXCEPT !.exp = x.exp + k])

\* x >= y
DecGeq(x, y) == ~DecSub(x, y).neg

\* x > y
DecGt(x, y) == LET d == DecSub(x, y) IN ~d.neg /\ d.mag /= <<>>

(***************************************************************************)
(* Rendering with two fraction digits, as the format specs `.2f` and       *)
(* `,.2f` do.  The value is rounded to hundredths (a tie goes to the even  *)
(* neighbour), a negative value keeps its sign, and `,` groups the integer *)
(* digits in threes.                                                       *)
(***************************************************************************)
\* |x| in hundredths, rounded, as a magnitude
RoundHundredths(x) ==
    IF x.exp <= 1 THEN MagShift(x.mag, 1 - x.exp)
    ELSE LET d    == x.exp - 1
             n    == Len(x.mag)
             q    == IF d >= n THEN <<>> ELSE SubSeq(x.mag, d + 1, n)
             top  == IF d > n THEN 0 ELSE x.mag[d]
             odd  == q /= <<>> /\ q[1] % 2 = 1
             up   == \/ top > 50
                     \/ top = 50 /\ d >= 2
                     \/ top = 50 /\ d = 1 /\ odd
         IN  IF up THEN MagAdd(q, <<1>>) ELSE q

DigitChar(d) == <<"0", "1", "2", "3", "4", "5", "6", "7", "8", "9">>[d + 1]

\* the decimal digits of a magnitude, most significant first, none for zero
RECURSIVE MagDigits(_)
MagDigits(a) ==
    IF a = <<>> THEN <<>>
    ELSE LET hi   == a[Len(a)]
             rest == SubSeq(a, 1, Len(a) - 1)
             low  == [i \in 1..(2 * Len(rest)) |->
                        LET l == rest[Len(rest) - ((i - 1) \div 2)]
                        IN  IF i % 2 = 1 THEN l \div 10 ELSE l % 10]
         IN  (IF hi >= 10 THEN <<hi \div 10, hi % 10>> ELSE <<hi>>) \o low

RECURSIVE DigitString(_)
DigitString(ds) ==
    IF ds = <<>> THEN "" ELSE DigitChar(Head(ds)) \o DigitString(Tail(ds))

RECURSIVE Grouped(_)
Grouped(ds) ==
    IF Len(ds) <= 3 THEN DigitString(ds)
    ELSE Grouped(SubSeq(ds, 1, Len(ds) - 3)) \o ","
           \o DigitString(SubSeq(ds, Len(ds) - 2, Len(ds)))

\* f"{x:.2f}" (comma = FALSE) and f"{x:,.2f}" (comma = TRUE)
Fixed2(x, comma) ==
    LET h    == RoundHundredths(x)
        frac == IF h = <<>> THEN 0 ELSE h[1]
        int  == IF h = <<>> THEN <<>> ELSE MagStrip(Tail(h))
        ds   == IF int = <<>> THEN <<0>> ELSE MagDigits(int)
    IN  (IF x.neg THEN "-" ELSE "")
          \o (IF comma THEN Grouped(ds) ELSE DigitString(ds))
          \o "." \o DigitChar(frac \div 10) \o DigitChar(frac % 10)

\* f"{x * 100:.2f}%"
FormatPercent(x) == Fixed2(DecMul(x, DecInt(100)), FALSE) \o "%"

Million == DecInt(1000000)
Billion == DecMul(DecInt(1000), Million)
Trillion == DecMul(Million, Million)

\* a faulty variant of format_in_millions_billions_trillions: strict thresholds
FormatStrictThresholds(value) ==
    IF DecGt(value, Trillion)
    THEN "$" \o Fixed2(DecDivPow(value, 6), FALSE) \o "T"
    ELSE IF DecGt(value, Billion)
    THEN "$" \o Fixed2(DecMul(DecDivPow(value, 5), DecInt(10)), FALSE) \o "B"
    ELSE IF DecGt(value, Million)
    THEN "$" \o Fixed2(DecDivPow(value, 3), FALSE) \o "M"
    ELSE "$" \o Fixed2(value, TRUE)

format_in_millions_billions_trillions(value) ==
    IF DecGeq(value, Trillion)
    THEN "$" \o Fixed2(DecDivPow(value, 6), FALSE) \o "T"
    ELSE IF DecGeq(value, Billion)
    THEN "$" \o Fixed2(DecMul(DecDivPow(value, 5), DecInt(10)), FALSE) \o "B"
    ELSE IF DecGeq(value, Million)
    THEN "$" \o Fixed2(DecDivPow(value, 3), FALSE) \o "M"
    ELSE "$" \o Fixed2(value, TRUE)

(***************************************************************************)
(* Bounds of the model and the values the user types into the widgets.     *)
(***************************************************************************)
\* the longest horizon (retirement_age - current_age) explored
MaxHorizon == 5
\* the most options selected in the comparison multiselect
MaxCompare == 2

AgeChoices == {30}
SavingsChoices == {-1000, 0, 10000}
ContributionChoices == {-50, 500}
Frequencies == {"Monthly", "Biweekly", "Quarterly", "Annual"}
\* percentages typed into "Enter Expected Annual Return (%)"
CustomChoices == {DecInt(-1), DecInt(7)}
\* percentages typed into "Inflation Rate (%)"
InflationChoices == {DecPercent(250)}
\* the options the user picks from in the comparison multiselect
CompareChoices ==
    {"S&P 500 Index Fund (ETF)", "Government Bond (10-year)", "Custom"}
\* the options the user picks from in "Select Investment Option"
OptionChoices == CompareChoices \cup {"Corporate Bond (10-year)"}
\* the retirement ages typed at a given current age
RetirementChoices(age) == age..(age + MaxHorizon)
\* annualized returns a price history can yield
StockReturns == {DecPercent(-3)}

(***************************************************************************)
(* The functions and tables of the script.                                 *)
(***************************************************************************)
\* what the body of the try block does: raise, or arrive at annual_return
Outcomes ==
    {[raised |-> TRUE, value |-> DecZero]}
      \cup {[raised |-> FALSE, value |-> v] : v \in StockReturns}
NoFetch == [raised |-> FALSE, value |-> DecZero]

\* a faulty variant of get_stock_return: no except clause, the exception propagates
get_stock_return_reraise(stock_symbol, outcome) == outcome

get_stock_return(stock_symbol, outcome) ==
    IF outcome.raised
    THEN [raised |-> FALSE, value |-> DecPercent(7)]
    ELSE [raised |-> FALSE, value |-> outcome.value]

adjust_for_inflation(rate, inflation_rate) == DecSub(rate, inflation_rate)

OptionNames ==
    << "S&P 500 Index Fund (ETF)", "Nasdaq ETF (QQQ)", "Bitcoin (BTC)",
       "Ethereum (ETH)", "Government Bond (10-year)",
       "Corporate Bond (10-year)", "Custom" >>
Options == {OptionNames[i] : i \in 1..Len(OptionNames)}

Ticker(option) ==
    CASE option = "S&P 500 Index Fund (ETF)" -> "SPY"
      [] option = "Nasdaq ETF (QQQ)" -> "QQQ"
      [] option = "Bitcoin (BTC)" -> "BTC-USD"
      [] option = "Ethereum (ETH)" -> "ETH-USD"
      [] OTHER -> ""

\* the outcomes a call of investment_options[option] can meet
OutcomesOf(option) == IF Ticker(option) = "" THEN {NoFetch} ELSE Outcomes

\* investment_options[option](), for option /= "Custom"
investment_options(option, outcome) ==
    CASE Ticker(option) /= "" -> get_stock_return(Ticker(option), outcome)
      [] option = "Government Bond (10-year)" ->
            [raised |-> FALSE, value |-> DecPercent(3)]
      [] option = "Corporate Bond (10-year)" ->
            [raised |-> FALSE, value |-> DecPercent(5)]

\* st.number_input with integer bounds: a typed value outside them is refused
NumberInput(min_value, max_value, typed) ==
    {v \in typed : v >= min_value /\ v <= max_value}

\* st.number_input with min_value alone
NumberInputFrom(min_value, typed) == {v \in typed : v >= min_value}

\* st.number_input with float bounds
NumberInputFloat(min_value, max_value, typed) ==
    {v \in typed : DecGeq(v, min_value) /\ DecGeq(max_value, v)}

CurrentAgeMin == 18
CurrentAgeMax == 80
RetirementAgeMax == 100
CurrentSavingsMin == 0
ContributionMin == 0

\* a faulty variant of RetirementAgeMin: min_value = current_age
RetirementAgeMinSameYear(age) == age

\* min_value of the "Retirement Age" input
RetirementAgeMin(age) == age + 1

\* lines 51-58
AnnualContribution(frequency, value) ==
    CASE frequency = "Biweekly" -> value * 26
      [] frequency = "Quarterly" -> value * 4
      [] frequency = "Annual" -> value
      [] OTHER -> value * 12

\* a faulty variant of AnnualGrowth: growth on the balance after the contribution
AnnualGrowthAfterContribution(balance, rate, contribution) ==
    DecMul(DecAdd(balance, contribution), rate)

\* annual_growth = savings[-1] * manual_return
AnnualGrowth(balance, rate, contribution) == DecMul(balance, rate)

\* savings[-1] + annual_contribution + annual_growth
NextSavings(balance, contribution, annual_growth) ==
    DecAdd(DecAdd(balance, contribution), annual_growth)

\* a faulty variant of NextOptionSavings: the contribution is compounded too
NextOptionSavingsContributionFirst(balance, rate, contribution) ==
    DecMul(DecAdd(balance, contribution), DecAdd(DecOne, rate))

\* option_savings[-1] * (1 + return_rate) + annual_contribution
NextOptionSavings(balance, rate, contribution) ==
    DecAdd(DecMul(balance, DecAdd(DecOne, rate)), contribution)

\* the inner loop of the comparison: range(1, years_to_invest + 1)
RECURSIVE OptionSavings(_, _, _, _)
OptionSavings(series, rate, contribution, n) ==
    IF n <= 0 THEN series
    ELSE OptionSavings(
           Append(series,
                  NextOptionSavings(series[Len(series)], rate, contribution)),
           rate, contribution, n - 1)

\* a faulty variant of CumSum: the series itself
CumSumNone(series) == series

\* pd.Series(series).cumsum()
CumSum(series) ==
    LET RECURSIVE Run(_, _, _)
        Run(i, acc, out) ==
            IF i > Len(series) THEN out
            ELSE Run(i + 1, DecAdd(acc, series[i]),
                     Append(out, DecAdd(acc, series[i])))
    IN  Run(1, DecZero, <<>>)

\* sum(series)
RECURSIVE Sum(_)
Sum(series) ==
    IF series = <<>> THEN DecZero ELSE DecAdd(Head(series), Sum(Tail(series)))

\* list(range(lo, hi))
Range(lo, hi) == [i \in 1..(IF hi > lo THEN hi - lo ELSE 0) |-> lo + i - 1]

\* a faulty variant of YearsColumn: range(current_age, retirement_age)
YearsColumnShort(age, retirement) == Range(age, retirement)

\* years = list(range(current_age, retirement_age + 1))
YearsColumn(age, retirement) == Range(age, retirement + 1)

\* pd.DataFrame of four columns: row i carries the label i (RangeIndex)
DataFrame(year_col, savings_col, contributions_col, growth_col) ==
    [i \in 1..Len(year_col) |->
        [index |-> i - 1, Year |-> year_col[i],
         TotalSavings |-> savings_col[i],
         Contributions |-> contributions_col[i], Growth |-> growth_col[i]]]

\* a faulty variant of SetColumn: a new column goes to the front
SetColumnFront(frame, name, values) ==
    <<[name |-> name, values |-> values]>> \o frame

\* frame[name] = values: replaces the column of that name, else appends one
SetColumn(frame, name, values) ==
    IF \E i \in 1..Len(frame) : frame[i].name = name
    THEN [i \in 1..Len(frame) |->
            IF frame[i].name = name
            THEN [name |-> name, values |-> values] ELSE frame[i]]
    ELSE Append(frame, [name |-> name, values |-> values])

\* a faulty variant of Cagr: the guard is start_value >= 0
CagrGuardGeq(start_value, end_value, n) ==
    IF ~start_value.neg
    THEN IF n = 0 \/ start_value.mag = <<>>
         THEN [kind |-> "ZeroDivisionError", num |-> end_value,
               den |-> start_value, n |-> n]
         ELSE [kind |-> "root", num |-> end_value, den |-> start_value,
               n |-> n]
    ELSE [kind |-> "zero", num |-> DecZero, den |-> DecZero, n |-> 0]

\* ((end_value / start_value) ** (1 / n) - 1) if start_value > 0 else 0.
\* "root" stands for the number (num / den)^(1/n) - 1, "zero" for 0
Cagr(start_value, end_value, n) ==
    IF DecGt(start_value, DecZero)
    THEN IF n = 0
         THEN [kind |-> "ZeroDivisionError", num |-> end_value,
               den |-> start_value, n |-> n]
         ELSE [kind |-> "root", num |-> end_value, den |-> start_value,
               n |-> n]
    ELSE [kind |-> "zero", num |-> DecZero, den |-> DecZero, n |-> 0]

NoCagr == [kind |-> "unset", num |-> DecZero, den |-> DecZero, n |-> 0]

\* the sequences without repetition a multiselect can return
Selections(choices, n) ==
    {s \in UNION {[1..k -> choices] : k \in 0..n} :
        \A i, j \in 1..Len(s) : i /= j => s[i] /= s[j]}

(***************************************************************************)
(* The state: the script's global variables, the position of the run (pc)  *)
(* and, for the rate lookups, what the last call of get_stock_return met   *)
(* (fetch for line 75, option_fetch for line 142).                         *)
(***************************************************************************)
VARIABLES
    pc,
    current_age, retirement_age, current_savings,
    contribution_frequency, contribution_value, annual_contribution,
    selected_option, manual_return, fetch,
    adjust_for_inflation_option, inflation_rate,
    years_to_invest, savings, contributions, growth,
    years, df, total_contributions, total_growth, cagr, metrics,
    comparison_options, comparison_data, comparison_metrics,
    option, return_rate, option_fetch, option_savings,
    total_option_contributions, total_option_savings, total_option_returns,
    option_cagr, shown,
    value, formatted

inputVars ==
    << current_age, retirement_age, current_savings, contribution_frequency,
       contribution_value, annual_contribution >>
rateVars ==
    << selected_option, manual_return, fetch, adjust_for_inflation_option,
       inflation_rate >>
loopVars == << years_to_invest, savings, contributions, growth >>
frameVars == << years, df >>
metricVars == << total_contributions, total_growth, cagr, metrics >>
compareVars == << comparison_options, comparison_data, comparison_metrics >>
optionVars ==
    << option, return_rate, option_fetch, option_savings,
       total_option_contributions, total_option_savings,
       total_option_returns, option_cagr >>
formatVars == << value, formatted >>
vars ==
    << pc, inputVars, rateVars, loopVars, frameVars, metricVars, compareVars,
       optionVars, shown, formatVars >>

\* a fresh run of the script: nothing is assigned yet
Init ==
    /\ pc = "sidebar"
    /\ current_age = 0 /\ retirement_age = 0 /\ current_savings = 0
    /\ contribution_frequency = "" /\ contribution_value = 0
    /\ annual_contribution = 0
    /\ selected_option = "" /\ manual_return = DecZero /\ fetch = NoFetch
    /\ adjust_for_inflation_option = FALSE /\ inflation_rate = DecZero
    /\ years_to_invest = 0 /\ savings = <<>> /\ contributions = <<>>
    /\ growth = <<>>
    /\ years = <<>> /\ df = <<>>
    /\ total_contributions = DecZero /\ total_growth = DecZero
    /\ cagr = NoCagr /\ metrics = <<>>
    /\ comparison_options = <<>> /\ comparison_data = <<>>
    /\ comparison_metrics = <<>>
    /\ option = "" /\ return_rate = DecZero /\ option_fetch = NoFetch
    /\ option_savings = <<>>
    /\ total_option_contributions = DecZero
    /\ total_option_savings = DecZero /\ total_option_returns = DecZero
    /\ option_cagr = NoCagr
    /\ shown = FALSE
    /\ value = DecZero /\ formatted = ""

\* lines 43-58: the sidebar inputs and the annual contribution
ReadSidebar ==
    /\ pc = "sidebar"
    /\ \E age \in NumberInput(CurrentAgeMin, CurrentAgeMax, AgeChoices) :
       \E ret \in NumberInput(RetirementAgeMin(age), RetirementAgeMax,
                              RetirementChoices(age)) :
       \E sav \in NumberInputFrom(CurrentSavingsMin, SavingsChoices) :
       \E freq \in Frequencies :
       \E val \in NumberInputFrom(ContributionMin, ContributionChoices) :
          /\ current_age' = age
          /\ retirement_age' = ret
          /\ current_savings' = sav
          /\ contribution_frequency' = freq
          /\ contribution_value' = val
          /\ annual_contribution' = AnnualContribution(freq, val)
    /\ pc' = "option"
    /\ UNCHANGED << rateVars, loopVars, frameVars, metricVars, compareVars,
                    optionVars, shown, formatVars >>

\* lines 70-73: the option "Custom" and the rate typed for it
SelectCustom ==
    /\ pc = "option"
    /\ \E typed \in NumberInputFloat(DecInt(0), DecInt(100), CustomChoices) :
          manual_return' = DecDivPow(typed, 1)
    /\ selected_option' = "Custom"
    /\ fetch' = NoFetch
    /\ pc' = "inflation"
    /\ UNCHANGED << inputVars, adjust_for_inflation_option, inflation_rate,
                    loopVars, frameVars, metricVars, compareVars, optionVars,
                    shown, formatVars >>

\* lines 70-75: any other option; its rate comes from investment_options.
\* An exception that leaves investment_options[...]() ends the run
SelectListed ==
    /\ pc = "option"
    /\ \E opt \in (Options \cap OptionChoices) \ {"Custom"} :
       \E outcome \in OutcomesOf(opt) :
          LET r == investment_options(opt, outcome)
          IN  /\ selected_option' = opt
              /\ fetch' = outcome
              /\ manual_return' = IF r.raised THEN DecZero ELSE r.value
              /\ pc' = IF r.raised THEN "crashed" ELSE "inflation"
    /\ UNCHANGED << inputVars, adjust_for_inflation_option, inflation_rate,
                    loopVars, frameVars, metricVars, compareVars, optionVars,
                    shown, formatVars >>

\* lines 81-84: the inflation checkbox and rate
AdjustForInflation ==
    /\ pc = "inflation"
    /\ \E checked \in BOOLEAN :
       \E typed \in NumberInputFloat(DecInt(0), DecInt(10), InflationChoices) :
          /\ adjust_for_inflation_option' = checked
          /\ inflation_rate' = DecDivPow(typed, 1)
          /\ manual_return' =
                IF checked
                THEN adjust_for_inflation(manual_return, DecDivPow(typed, 1))
                ELSE manual_return
    /\ pc' = "projection"
    /\ UNCHANGED << inputVars, selected_option, fetch, loopVars, frameVars,
                    metricVars, compareVars, optionVars, shown, formatVars >>

\* lines 87-90: the horizon and the three lists
StartProjection ==
    /\ pc = "projection"
    /\ years_to_invest' = retirement_age - current_age
    /\ savings' = <<DecInt(current_savings)>>
    /\ contributions' = <<DecZero>>
    /\ growth' = <<DecZero>>
    /\ pc' = "loop"
    /\ UNCHANGED << inputVars, rateVars, frameVars, metricVars, compareVars,
                    optionVars, shown, formatVars >>

\* lines 92-96: one iteration of the projection loop (year = Len(savings))
ProjectYear ==
    /\ pc = "loop"
    /\ Len(savings) <= years_to_invest
    /\ LET annual_growth ==
               AnnualGrowth(savings[Len(savings)], manual_return,
                            DecInt(annual_contribution))
       IN  /\ contributions' = Append(contributions, DecInt(annual_contribution))
           /\ growth' = Append(growth, annual_growth)
           /\ savings' =
                 Append(savings,
                        NextSavings(savings[Len(savings)],
                                    DecInt(annual_contribution), annual_growth))
    /\ UNCHANGED << pc, inputVars, rateVars, years_to_invest, frameVars,
                    metricVars, compareVars, optionVars, shown, formatVars >>

\* lines 99-105: the loop is over; the Year column and the data frame
BuildFrame ==
    /\ pc = "loop"
    /\ Len(savings) > years_to_invest
    /\ years' = YearsColumn(current_age, retirement_age)
    /\ df' = DataFrame(YearsColumn(current_age, retirement_age), savings,
                       CumSum(contributions), CumSum(growth))
    /\ pc' = "metrics"
    /\ UNCHANGED << inputVars, rateVars, loopVars, metricVars, compareVars,
                    optionVars, shown, formatVars >>

\* lines 111-124: the key metrics; a ZeroDivisionError ends the run
KeyMetrics ==
    /\ pc = "metrics"
    /\ LET last  == savings[Len(savings)]
           total == Sum(contributions)
           g     == DecSub(DecSub(last, total), DecInt(current_savings))
           c     == Cagr(DecInt(current_savings), last, years_to_invest)
       IN  /\ total_contributions' = total
           /\ total_growth' = g
           /\ cagr' = c
           /\ IF c.kind = "ZeroDivisionError"
              THEN /\ pc' = "crashed"
                   /\ UNCHANGED metrics
              ELSE /\ pc' = "comparison"
                   /\ metrics' =
                        << format_in_millions_billions_trillions(last),
                           format_in_millions_billions_trillions(total),
                           format_in_millions_billions_trillions(g),
                           FormatPercent(manual_return) >>
    /\ UNCHANGED << inputVars, rateVars, loopVars, frameVars, compareVars,
                    optionVars, shown, formatVars >>

\* lines 132-139: the multiselect and the empty comparison tables
SelectComparison ==
    /\ pc = "comparison"
    /\ comparison_options' \in Selections(CompareChoices, MaxCompare)
    /\ comparison_data' = <<[name |-> "Year", values |-> years]>>
    /\ comparison_metrics' = <<>>
    /\ pc' = "compare"
    /\ UNCHANGED << inputVars, rateVars, loopVars, frameVars, metricVars,
                    optionVars, shown, formatVars >>

\* lines 141-157: one iteration of the comparison loop, for the option at
\* position Len(comparison_metrics) + 1
CompareOption ==
    /\ pc = "compare"
    /\ Len(comparison_metrics) < Len(comparison_options)
    /\ LET opt == comparison_options[Len(comparison_metrics) + 1]
       IN  \E outcome \in OutcomesOf(opt) :
           LET r    == IF opt /= "Custom"
                       THEN investment_options(opt, outcome)
                       ELSE [raised |-> FALSE, value |-> manual_return]
               rate == r.value
               ser  == OptionSavings(<<DecInt(current_savings)>>, rate,
                                     DecInt(annual_contribution),
                                     years_to_invest)
               tc   == DecMul(DecInt(annual_contribution),
                              DecInt(years_to_invest))
               ts   == ser[Len(ser)]
               tr   == DecSub(DecSub(ts, tc), DecInt(current_savings))
               oc   == Cagr(DecInt(current_savings), ts, years_to_invest)
           IN  /\ option' = opt
               /\ option_fetch' = outcome
               /\ IF r.raised \/ oc.kind = "ZeroDivisionError"
                  THEN /\ pc' = "crashed"
                       /\ UNCHANGED << return_rate, option_savings,
                                       total_option_contributions,
                                       total_option_savings,
                                       total_option_returns, option_cagr,
                                       comparison_data, comparison_metrics >>
                  ELSE /\ pc' = pc
                       /\ return_rate' = rate
                       /\ option_savings' = ser
                       /\ total_option_contributions' = tc
                       /\ total_option_savings' = ts
                       /\ total_option_returns' = tr
                       /\ option_cagr' = oc
                       /\ comparison_data' = SetColumn(comparison_data, opt, ser)
                       /\ comparison_metrics' =
                            Append(comparison_metrics,
                                   [Option |-> opt,
                                    AnnualReturn |-> FormatPercent(rate),
                                    TotalContributions |->
                                      format_in_millions_billions_trillions(tc),
                                    TotalSavings |->
                                      format_in_millions_billions_trillions(ts),
                                    CAGR |-> oc])
    /\ UNCHANGED << inputVars, rateVars, loopVars, frameVars, metricVars,
                    comparison_options, shown, formatVars >>

\* lines 158-166: the comparison is displayed if it has rows; the export
Finish ==
    /\ pc = "compare"
    /\ Len(comparison_metrics) = Len(comparison_options)
    /\ shown' = (comparison_metrics /= <<>>)
    /\ pc' = "done"
    /\ UNCHANGED << inputVars, rateVars, loopVars, frameVars, metricVars,
                    compareVars, optionVars, formatVars >>

\* a widget changes (or the run ended in an exception and one changes):
\* Streamlit runs the script again from the top
Rerun ==
    /\ pc \in {"done", "crashed"}
    /\ pc' = "sidebar"
    /\ current_age' = 0 /\ retirement_age' = 0 /\ current_savings' = 0
    /\ contribution_frequency' = "" /\ contribution_value' = 0
    /\ annual_contribution' = 0
    /\ selected_option' = "" /\ manual_return' = DecZero /\ fetch' = NoFetch
    /\ adjust_for_inflation_option' = FALSE /\ inflation_rate' = DecZero
    /\ years_to_invest' = 0 /\ savings' = <<>> /\ contributions' = <<>>
    /\ growth' = <<>>
    /\ years' = <<>> /\ df' = <<>>
    /\ total_contributions' = DecZero /\ total_growth' = DecZero
    /\ cagr' = NoCagr /\ metrics' = <<>>
    /\ comparison_options' = <<>> /\ comparison_data' = <<>>
    /\ comparison_metrics' = <<>>
    /\ option' = "" /\ return_rate' = DecZero /\ option_fetch' = NoFetch
    /\ option_savings' = <<>>
    /\ total_option_contributions' = DecZero
    /\ total_option_savings' = DecZero /\ total_option_returns' = DecZero
    /\ option_cagr' = NoCagr
    /\ shown' = FALSE
    /\ UNCHANGED formatVars

Next ==
    \/ ReadSidebar
    \/ SelectCustom
    \/ SelectListed
    \/ AdjustForInflation
    \/ StartProjection
    \/ ProjectYear
    \/ BuildFrame
    \/ KeyMetrics
    \/ SelectComparison
    \/ CompareOption
    \/ Finish
    \/ Rerun

Spec == Init /\ [][Next]_vars

(***************************************************************************)
(* format_in_millions_billions_trillions on its own: the value is drawn    *)
(* from amounts at, next to and between the thresholds, of either sign.    *)
(***************************************************************************)
FormatValues ==
    LET near == {DecAdd(DecMul(t, m), d) :
                    t \in {Million, Billion, Trillion},
                    m \in {DecInt(1), DecInt(2), DecInt(999), DecPercent(50)},
                    d \in {DecInt(-1), DecPercent(-1), DecZero, DecPercent(1),
                           DecInt(1)}}
    IN  near \cup {DecNeg(v) : v \in near}
          \cup {DecZero, DecInt(999999), DecPercent(99999999)}

InitFormat ==
    /\ pc = "format"
    /\ current_age = 0 /\ retirement_age = 0 /\ current_savings = 0
    /\ contribution_frequency = "" /\ contribution_value = 0
    /\ annual_contribution = 0
    /\ selected_option = "" /\ manual_return = DecZero /\ fetch = NoFetch
    /\ adjust_for_inflation_option = FALSE /\ inflation_rate = DecZero
    /\ years_to_invest = 0 /\ savings = <<>> /\ contributions = <<>>
    /\ growth = <<>>
    /\ years = <<>> /\ df = <<>>
    /\ total_contributions = DecZero /\ total_growth = DecZero
    /\ cagr = NoCagr /\ metrics = <<>>
    /\ comparison_options = <<>> /\ comparison_data = <<>>
    /\ comparison_metrics = <<>>
    /\ option = "" /\ return_rate = DecZero /\ option_fetch = NoFetch
    /\ option_savings = <<>>
    /\ total_option_contributions = DecZero
    /\ total_option_savings = DecZero /\ total_option_returns = DecZero
    /\ option_cagr = NoCagr
    /\ shown = FALSE
    /\ value \in FormatValues
    /\ formatted = ""

\* lines 8-16: one call
Format ==
    /\ pc = "format"
    /\ formatted' = format_in_millions_billions_trillions(value)
    /\ pc' = "formatted"
    /\ UNCHANGED << inputVars, rateVars, loopVars, frameVars, metricVars,
                    compareVars, optionVars, shown, value >>

NextFormat == Format

SpecFormat == InitFormat /\ [][NextFormat]_vars

(***************************************************************************)
(* The projection as a function of its four inputs: the lists that lines   *)
(* 88-96 build for a starting balance, a contribution, a rate and a        *)
(* horizon.                                                                *)
(***************************************************************************)
RECURSIVE ProjectionLoop(_, _, _, _)
ProjectionLoop(lists, contribution, rate, n) ==
    IF n <= 0 THEN lists
    ELSE LET balance == lists.savings[Len(lists.savings)]
             annual_growth == AnnualGrowth(balance, rate, contribution)
         IN  ProjectionLoop(
               [savings |-> Append(lists.savings,
                                   NextSavings(balance, contribution,
                                               annual_growth)),
                contributions |-> Append(lists.contributions, contribution),
                growth |-> Append(lists.growth, annual_growth)],
               contribution, rate, n - 1)

Projection(start, contribution, rate, n) ==
    ProjectionLoop([savings |-> <<start>>, contributions |-> <<DecZero>>,
                    growth |-> <<DecZero>>], contribution, rate, n)

(***************************************************************************)
(* Properties.                                                             *)
(***************************************************************************)
FrameBuilt == pc \in {"metrics", "comparison", "compare", "done"}
LoopEntered == pc = "loop" \/ FrameBuilt
OptionCompared == pc \in {"compare", "done"} /\ comparison_metrics /= <<>>
Start == DecInt(current_savings)
Contribution == DecInt(annual_contribution)

\* C1: in every record of the data frame the balance is the starting
\* balance plus the cumulative contributions plus the cumulative growth,
\* the two cumulative columns being the running sums of the per-year
\* contributions and growth amounts the loop appended.
C1_BalanceIdentity ==
    FrameBuilt =>
        \A i \in 1..Len(df) :
            /\ df[i].Contributions = Sum(SubSeq(contributions, 1, i))
            /\ df[i].Growth = Sum(SubSeq(growth, 1, i))
            /\ df[i].TotalSavings =
                  DecAdd(DecAdd(Start, df[i].Contributions), df[i].Growth)

\* C1: a finished run of three years or more whose growth is not zero
C1_Witness ==
    /\ pc = "done"
    /\ Len(df) >= 4
    /\ df[Len(df)].Growth /= DecZero
    /\ df[Len(df)].Contributions /= DecZero

\* C2: end-of-period compounding: each year's growth is the previous
\* balance times the rate, and the new balance is the previous balance plus
\* the contribution plus that growth; for 10000, 6000, 0.07 and 5 years the
\* balances of years 1..5 are 16700, 23869, 31539.83, 39747.62, 48529.95 to
\* two decimals.
C2_EndOfPeriod ==
    LoopEntered =>
        /\ \A y \in 2..Len(savings) :
              /\ growth[y] = DecMul(savings[y - 1], manual_return)
              /\ contributions[y] = Contribution
              /\ savings[y] =
                    DecAdd(DecAdd(savings[y - 1], Contribution), growth[y])
        /\ ( /\ FrameBuilt
             /\ current_savings = 10000
             /\ annual_contribution = 6000
             /\ manual_return = DecPercent(7)
             /\ years_to_invest = 5 )
           => [y \in 1..5 |-> Fixed2(savings[y + 1], FALSE)]
                 = << "16700.00", "23869.00", "31539.83", "39747.62",
                      "48529.95" >>

\* C2: the reference scenario has run to its end
C2_Witness ==
    /\ pc = "done"
    /\ current_savings = 10000
    /\ annual_contribution = 6000
    /\ manual_return = DecPercent(7)
    /\ years_to_invest = 5
    /\ Len(savings) = 6

\* C3: the data frame has horizon + 1 records labelled 0..horizon (the Year
\* column of record i being current_age + i), and record 0 carries the
\* starting balance, no contributions and no growth.
C3_Records ==
    FrameBuilt =>
        /\ Len(df) = years_to_invest + 1
        /\ \A i \in 1..Len(df) :
              /\ df[i].index = i - 1
              /\ df[i].Year = current_age + df[i].index
        /\ df[1].index = 0
        /\ df[1].TotalSavings = Start
        /\ df[1].Contributions = DecZero
        /\ df[1].Growth = DecZero

\* C3: a finished run with a positive starting balance and a horizon of
\* two years or more
C3_Witness ==
    /\ pc = "done"
    /\ current_savings > 0
    /\ years_to_invest >= 2
    /\ Len(df) = years_to_invest + 1

\* C4: the balances the comparison loop computes for an option are the
\* balances of the projection for the same starting balance, contribution
\* and horizon at that option's rate, and the option's total contributions
\* are the projection's last cumulative contribution.
C4_ComparisonIsProjection ==
    OptionCompared =>
        LET p == Projection(Start, Contribution, return_rate, years_to_invest)
            c == CumSum(p.contributions)
        IN  /\ option_savings = p.savings
            /\ total_option_savings = p.savings[Len(p.savings)]
            /\ total_option_contributions = c[Len(c)]
            /\ comparison_data[Len(comparison_data)].values = p.savings

\* C4: an option compared at a rate other than zero and other than the main
\* projection's, over two years or more, with contributions
C4_Witness ==
    /\ OptionCompared
    /\ years_to_invest >= 2
    /\ annual_contribution > 0
    /\ current_savings > 0
    /\ return_rate /= DecZero
    /\ return_rate /= manual_return

\* C5: the comparison keeps the order of the selected names: the i-th row
\* of the metrics and the i-th option column of the data belong to the i-th
\* selected name, one row and one column per name.
C5_OrderPreserved ==
    pc \in {"compare", "done"} =>
        /\ Len(comparison_metrics) <= Len(comparison_options)
        /\ Len(comparison_data) = Len(comparison_metrics) + 1
        /\ comparison_data[1].name = "Year"
        /\ \A i \in 1..Len(comparison_metrics) :
              /\ comparison_metrics[i].Option = comparison_options[i]
              /\ comparison_data[i + 1].name = comparison_options[i]
        /\ pc = "done" => Len(comparison_metrics) = Len(comparison_options)

\* C5: a finished comparison of two or more options
C5_Witness ==
    /\ pc = "done"
    /\ Len(comparison_options) >= 2
    /\ Len(comparison_metrics) = Len(comparison_options)

CagrSet(c) == c.kind /= "unset"

CagrRule(c, end_value) ==
    IF current_savings = 0
    THEN c.kind = "zero"
    ELSE c = [kind |-> "root", num |-> end_value, den |-> Start,
              n |-> years_to_invest]

\* C6: with a starting balance of 0 the CAGR is 0 and nothing is raised,
\* in the main projection and in every compared option; with a positive
\* starting balance it is (last balance / starting balance)^(1/horizon) - 1.
C6_Cagr ==
    /\ cagr.kind /= "ZeroDivisionError"
    /\ option_cagr.kind /= "ZeroDivisionError"
    /\ pc /= "crashed"
    /\ CagrSet(cagr) => CagrRule(cagr, savings[Len(savings)])
    /\ CagrSet(option_cagr) =>
          /\ CagrRule(option_cagr, option_savings[Len(option_savings)])
          /\ comparison_metrics[Len(comparison_metrics)].CAGR = option_cagr

\* C6: a finished run from a starting balance of 0 that ends above 0, with
\* an option compared
C6_Witness ==
    /\ pc = "done"
    /\ current_savings = 0
    /\ DecGt(savings[Len(savings)], DecZero)
    /\ cagr.kind = "zero"
    /\ option_cagr.kind = "zero"

C8_LookupFallback ==
    /\ pc /= "crashed"
    /\ (fetch.raised /\ pc = "inflation") => manual_return = DecPercent(7)
    /\ (fetch.raised /\ pc \notin {"option", "inflation"}) =>
          manual_return =
             IF adjust_for_inflation_option
             THEN DecSub(DecPercent(7), inflation_rate)
             ELSE DecPercent(7)
    /\ option_fetch.raised =>
          /\ return_rate = DecPercent(7)
          /\ comparison_metrics /= <<>>
          /\ comparison_metrics[Len(comparison_metrics)].Option = option
          /\ comparison_metrics[Len(comparison_metrics)].AnnualReturn = "7.00%"
    /\ pc = "done" => Len(comparison_metrics) = Len(comparison_options)

\* C8: a finished run in which the main lookup raised and the lookup of the
\* first of two compared options raised
C8_Witness ==
    /\ pc = "done"
    /\ fetch.raised
    /\ Len(comparison_metrics) = 2
    /\ comparison_metrics[1].AnnualReturn = "7.00%"
    /\ Ticker(comparison_metrics[1].Option) /= ""
    /\ \/ option_fetch.raised
       \/ Ticker(option) = ""

\* C9: the unit is chosen by exact thresholds: T from 10^12, B from 10^9,
\* M from 10^6, each with the value divided by the unit; anything below
\* 10^6, negative values included, is the plain grouped amount; 999999,
\* 10^6, 10^9 and 10^12 give "$999,999.00", "$1.00M", "$1.00B", "$1.00T".
C9_Thresholds ==
    pc = "formatted" =>
        /\ DecGeq(value, Trillion) =>
              formatted = "$" \o Fixed2(DecDivPow(value, 6), FALSE) \o "T"
        /\ (DecGeq(value, Billion) /\ ~DecGeq(value, Trillion)) =>
              formatted =
                 "$" \o Fixed2(DecMul(DecDivPow(value, 5), DecInt(10)), FALSE)
                     \o "B"
        /\ (DecGeq(value, Million) /\ ~DecGeq(value, Billion)) =>
              formatted = "$" \o Fixed2(DecDivPow(value, 3), FALSE) \o "M"
        /\ ~DecGeq(value, Million) =>
              formatted = "$" \o Fixed2(value, TRUE)
        /\ value = DecInt(999999) => formatted = "$999,999.00"
        /\ value = Million => formatted = "$1.00M"
        /\ value = Billion => formatted = "$1.00B"
        /\ value = Trillion => formatted = "$1.00T"
        /\ value = DecNeg(Billion) => formatted = "$-1,000,000,000.00"

\* C9: a value exactly on a threshold has been formatted
C9_Witness ==
    /\ pc = "formatted"
    /\ value = Billion
    /\ formatted = "$1.00B"

\* C10: when the option of the main projection has been compared, its rate
\* and its balances in the comparison are those of the main projection.
C10_SameAsMain ==
    (OptionCompared /\ option = selected_option) =>
        /\ return_rate = manual_return
        /\ option_savings = savings

=============================================================================
